---- MODULE Spec2Model ----
(***************************************************************************)
(* Duo admin-log connector: the checkpointed polling worker                *)
(* (Duo/duo/consumer.py, DuoLogsConsumer) and its two pagination iterators *)
(* (Duo/duo/iterators.py, DuoV1LogsIterator and DuoV2LogsIterator).        *)
(*                                                                         *)
(* One thread per log type shares the connector's checkpoint store         *)
(* (connector.context) and its lock (connector.context_lock).  The Duo     *)
(* API is the environment: a fixed finite set of records per run.          *)
(*                                                                         *)
(* Azure blob connector (connectors/azure_blob.py, AzureBlobConnector):    *)
(* the watermark-filtered scan of a blob container, one poll at a time.    *)
(***************************************************************************)
EXTENDS Integers, Sequences, FiniteSets, TLC

\* ------------------------------------------------------------------ bounds
NumRecs == 3
MaxTs == 2
MaxLimit == 2
MaxHist == 4
MaxTime == 4
MaxBlobs == 3

\* Python's None, for a cursor field that holds no value.
None == -1

Workers == {"admin", "auth"}
RecIds == 1 .. NumRecs
Shapes == {"always", "ifmore", "echo"}
Free == "free"

VARIABLES
    ts,          \* source: timestamp of each record (fixed for a run)
    limit,       \* configuration.chunk_size
    shape,       \* how the offset-cursor source fills metadata.next_offset
    started,     \* the consumer threads the connector has started
    store,       \* connector.context: log type -> saved checkpoint dict
    stored,      \* the keys present in connector.context
    lock,        \* connector.context_lock: Free or the thread holding it
    pc,          \* position of each thread
    stop_event,  \* DuoLogsConsumer._stop_event
    total,       \* fetch_batches: total_num_of_events
    result,      \* load_checkpoint: result
    it,          \* the iterator's fields: min_time, next_offset
    events,      \* the page the iterator step produced
    offset,      \* save_checkpoint: the keyword arguments being saved
    forwarded,   \* history: records passed to a successful push_events_to_intakes
    retcnt,      \* history: how often each record was returned in a page (capped at 2)
    hist,        \* history: the pages returned, oldest first (first MaxHist)
    after_stop,  \* history: pages forwarded since stop() was called (capped at 2)
    pass_cursor, \* history: the cursor the current pass started from
    resumed_at,  \* history: pages returned before the latest restart
    failed_ever, \* history: some fetch, push or store call has raised
    pass_pages,  \* history: the current pass has returned a page
    sleeps,      \* the arguments of the time.sleep calls since the thread's last source call
    cycle        \* history: <<fetch, push>> durations of the page last paced, or <<>>

VARIABLES
    now,         \* blob connector: the clock, in ticks of 30 minutes
    container,   \* the container's listing: last_modified of each blob, in listing order
    blob_cache,  \* connector.context["last_event_date"]: NoDate or an ISO-8601 text
    bpc,         \* position of the blob connector in get_azure_blob_data
    lower_bound, \* the effective watermark the poll read
    blobs_list,  \* what get_most_recent_blobs yielded: positions in the listing
    done,        \* how many of them the poll has downloaded and read
    watermark    \* the largest last_modified the poll has seen

azure == <<now, container, blob_cache, bpc, lower_bound, blobs_list, done, watermark>>

vars == <<ts, limit, shape, started, store, stored, lock, pc, stop_event, total,
          result, it, events, offset, forwarded, retcnt, hist, after_stop,
          pass_cursor, resumed_at, failed_ever, pass_pages, sleeps, cycle, azure>>

config == <<ts, limit, shape, started>>
ghost == <<forwarded, retcnt, hist, after_stop, pass_cursor, resumed_at,
           failed_ever, pass_pages>>
timing == <<sleeps, cycle>>

\* ----------------------------------------------------------------- helpers
Min(a, b) == IF a <= b THEN a ELSE b

Take(s, n) == SubSeq(s, 1, Min(n, Len(s)))

Front(s) == SubSeq(s, 1, Len(s) - 1)

Range(s) == {s[i] : i \in 1 .. Len(s)}

\* dict.get(key) on a dict held as a set of <<key, value>> pairs
Get(d, k) == IF \E p \in d : p[1] = k THEN (CHOOSE p \in d : p[1] = k)[2] ELSE None

\* Python truthiness of a cursor value: None and 0 are falsy
Truthy(x) == x /= None /\ x /= 0

\* The log type's iterator class: ADMINISTRATION -> DuoV1LogsIterator,
\* AUTHENTICATION -> DuoV2LogsIterator.
Kind(w) == IF w = "admin" THEN "v1" ELSE "v2"

DefaultCheckpoint == {<<"min_time", None>>, <<"next_offset", None>>}

\* configuration.frequency, in seconds
frequency == 5

\* Wall-clock durations are counted in half seconds: 0 s, 2.5 s, 6 s.
Durations == {0, 5, 12}

\* int(batch_end_time - batch_start_time): whole seconds, truncated
Seconds(d) == d \div 2

\* ------------------------------------------------------------ the source
\* The records in the order the API lists them.
AllRecs == [i \in RecIds |-> i]

\* fetch(mintime): every record with timestamp >= mintime, in listing order.
Fetch(m) == SelectSeq(AllRecs, LAMBDA r : ts[r] >= m)

\* sorted(events, key=timestamp): a stable sort, by insertion.
RECURSIVE Insert(_, _)
Insert(s, r) ==
    IF s = <<>> THEN <<r>>
    ELSE IF ts[s[Len(s)]] <= ts[r] THEN Append(s, r)
    ELSE Append(Insert(Front(s), r), s[Len(s)])

RECURSIVE SortedByTs(_)
SortedByTs(s) ==
    IF s = <<>> THEN <<>>
    ELSE Insert(SortedByTs(Front(s)), s[Len(s)])

\* The offset-cursor API sorts on its side (sort="ts:asc"); an offset is a
\* position in that order.  A request by mintime starts at the first record
\* with timestamp >= mintime (mintime None: at the first record).
SourceOrder == SortedByTs(AllRecs)

OffsetOfMintime(m) == IF m = None THEN 0 ELSE NumRecs - Len(Fetch(m))

SourceItems(o) == SubSeq(SourceOrder, o + 1, Min(o + limit, NumRecs))

SourceNextOffset(o) ==
    LET n == Len(SourceItems(o)) IN
    CASE shape = "always" -> IF n > 0 THEN o + n ELSE None
      [] shape = "ifmore" -> IF o + n < NumRecs THEN o + n ELSE None
      [] OTHER -> o + n

SourceResponse(o) == [items |-> SourceItems(o), next_offset |-> SourceNextOffset(o)]

\* ------------------------------------------------------------- iterators
\* Mutant: the loaded checkpoint is ignored and the cursor starts at 0.
V1IteratorFromZero(min_time) == [min_time |-> 0, next_offset |-> None]

\* DuoV1LogsIterator.__init__
V1Iterator(min_time) ==
    [min_time |-> IF Truthy(min_time) THEN min_time ELSE 0, next_offset |-> None]

\* DuoV2LogsIterator.__init__
V2Iterator(min_time, next_offset) ==
    [min_time |-> min_time, next_offset |-> next_offset]

\* Mutant: the client-side sort is left out.
V1PageUnsorted(min_time) == Take(Fetch(min_time), limit)

\* DuoV1LogsIterator.__next__, the page
V1Page(min_time) == Take(SortedByTs(Fetch(min_time)), limit)

\* Mutant: the cursor is left on the last returned timestamp (no + 1).
V1CursorNoStep(page) == ts[page[Len(page)]]

\* DuoV1LogsIterator.__next__, the new cursor
V1Cursor(page) == ts[page[Len(page)]] + 1

\* DuoV2LogsIterator.__next__, the request
V2Response(i) ==
    IF Truthy(i.next_offset) THEN SourceResponse(i.next_offset)
    ELSE SourceResponse(OffsetOfMintime(i.min_time))

\* Mutant: the sequence ends when the response carries no next_offset.
V2ExhaustedNoOffset(items, next_offset) == ~Truthy(next_offset)

\* DuoV2LogsIterator.__next__: `if len(events) == 0: raise StopIteration`
V2Exhausted(items, next_offset) == Len(items) = 0

\* DuoLogsConsumer.get_events_iterator
EventsIterator(w, last_checkpoint) ==
    IF Kind(w) = "v1" THEN V1Iterator(Get(last_checkpoint, "min_time"))
    ELSE V2Iterator(Get(last_checkpoint, "min_time"), Get(last_checkpoint, "next_offset"))

\* Mutant: acquire() does not wait for the lock.
LockIgnored == TRUE

\* context_lock.acquire() returns only when no thread holds the lock
LockFree == lock = Free

\* Mutant: the stored entry is not found and the default is returned.
CacheGetDefault(w) == DefaultCheckpoint

\* cache.get(key, default)
CacheGet(w) == IF w \in stored THEN store[w] ELSE DefaultCheckpoint

\* ------------------------------------------------- the blob connector
\* timedelta(hours=1), in ticks
Hour == 2

Times == 0 .. MaxTime

\* cache["last_event_date"] is None
NoDate == <<>>

\* datetime.isoformat() and its parse: the stored value is a text
IsoFormat(t) == <<"iso", t>>
IsoParse(text) == text[2]

Max(a, b) == IF a >= b THEN a ELSE b

\* Mutant: a stored value older than one hour is returned as it is.
LastEventDateNoClamp ==
    IF blob_cache = NoDate THEN now - Hour ELSE IsoParse(blob_cache)

\* AzureBlobConnector.last_event_date
LastEventDate ==
    LET one_hour_ago == now - Hour IN
    IF blob_cache = NoDate THEN one_hour_ago
    ELSE IF IsoParse(blob_cache) < one_hour_ago THEN one_hour_ago
    ELSE IsoParse(blob_cache)

\* list_blobs(): the positions of the listing, in its order
Listing == [i \in 1 .. Len(container) |-> i]

\* Mutant: the boundary is inclusive.
GetMostRecentBlobsInclusive(bound) ==
    SelectSeq(Listing, LAMBDA i : container[i] >= bound)

\* AzureBlobConnector.get_most_recent_blobs(lower_bound)
GetMostRecentBlobs(bound) ==
    SelectSeq(Listing, LAMBDA i : container[i] > bound)

\* Mutant: the watermark is advanced to the current time.
NewWatermarkNow(seen, last_modified) == Max(seen, now)

\* get_azure_blob_data: the largest last_modified seen so far
NewWatermark(seen, last_modified) == Max(seen, last_modified)

\* The blob connector is not part of a run of the Duo consumers.
InitAzureOff ==
    /\ now = Hour
    /\ container = <<>>
    /\ blob_cache = NoDate
    /\ bpc = "off"
    /\ lower_bound = 0
    /\ blobs_list = <<>>
    /\ done = 0
    /\ watermark = 0

\* ----------------------------------------------------------------- Init
InitShared ==
    /\ store = [w \in Workers |-> {}]
    /\ stored = {}
    /\ lock = Free
    /\ pc = [w \in Workers |-> IF w \in started THEN "run" ELSE "new"]
    /\ stop_event = [w \in Workers |-> FALSE]
    /\ total = [w \in Workers |-> 0]
    /\ result = [w \in Workers |-> {}]
    /\ it = [w \in Workers |-> [min_time |-> None, next_offset |-> None]]
    /\ events = [w \in Workers |-> <<>>]
    /\ offset = [w \in Workers |-> {}]
    /\ forwarded = [w \in Workers |-> {}]
    /\ retcnt = [w \in Workers |-> [r \in RecIds |-> 0]]
    /\ hist = [w \in Workers |-> <<>>]
    /\ after_stop = [w \in Workers |-> 0]
    /\ pass_cursor = [w \in Workers |-> 0]
    /\ resumed_at = [w \in Workers |-> 0]
    /\ failed_ever = FALSE
    /\ pass_pages = [w \in Workers |-> FALSE]
    /\ sleeps = [w \in Workers |-> <<>>]
    /\ cycle = [w \in Workers |-> <<>>]

\* One consumer thread is started, of either log type.
Init ==
    /\ ts \in [RecIds -> 1 .. MaxTs]
    /\ limit \in 1 .. MaxLimit
    /\ \/ started = {"admin"} /\ shape = "always"
       \/ started = {"auth"} /\ shape \in Shapes
    /\ InitShared
    /\ InitAzureOff

\* ---------------------------------------------------------------- actions
\* A page is returned to the for loop of fetch_batches.
Returned(w, page) ==
    /\ retcnt' = [retcnt EXCEPT ![w] =
                    [r \in RecIds |-> IF r \in Range(page) THEN Min(@[r] + 1, 2) ELSE @[r]]]
    /\ hist' = [hist EXCEPT ![w] = IF Len(@) < MaxHist THEN Append(@, page) ELSE @]
    /\ pass_pages' = [pass_pages EXCEPT ![w] = TRUE]

\* Mutant: the loop condition does not read the stop flag.
RunningAlways(w) == TRUE

\* DuoLogsConsumer.running
Running(w) == ~stop_event[w]

\* run: `while self.running`, then the start of fetch_batches
RunCheck(w) ==
    /\ pc[w] = "run"
    /\ IF ~Running(w)
       THEN /\ pc' = [pc EXCEPT ![w] = "stopped"]
            /\ UNCHANGED total
       ELSE /\ pc' = [pc EXCEPT ![w] = "load_acquire"]
            /\ total' = [total EXCEPT ![w] = 0]
    /\ UNCHANGED <<config, azure, store, stored, lock, stop_event, result, it, events, offset, ghost, timing>>

\* load_checkpoint: context_lock.acquire()
LoadAcquire(w) ==
    /\ pc[w] = "load_acquire"
    /\ LockFree
    /\ lock' = w
    /\ pc' = [pc EXCEPT ![w] = "load_cs"]
    /\ UNCHANGED <<config, azure, store, stored, stop_event, total, result, it, events, offset, ghost, timing>>

\* load_checkpoint: the `with connector.context` block
LoadRead(w) ==
    /\ pc[w] = "load_cs"
    /\ result' = [result EXCEPT ![w] = CacheGet(w)]
    /\ pc' = [pc EXCEPT ![w] = "load_release"]
    /\ UNCHANGED <<config, azure, store, stored, lock, stop_event, total, it, events, offset, ghost, timing>>

\* load_checkpoint: context_lock.release(), then get_events_iterator builds the iterator
LoadRelease(w) ==
    /\ pc[w] = "load_release"
    /\ lock' = Free
    /\ it' = [it EXCEPT ![w] = EventsIterator(w, result[w])]
    /\ pc' = [pc EXCEPT ![w] = "next"]
    /\ pass_cursor' = [pass_cursor EXCEPT ![w] = EventsIterator(w, result[w]).min_time]
    /\ pass_pages' = [pass_pages EXCEPT ![w] = FALSE]
    /\ UNCHANGED <<config, azure, store, stored, stop_event, total, result, events, offset,
                   forwarded, retcnt, hist, after_stop, resumed_at, failed_ever, timing>>

\* Mutant: the page is returned without the callback being called.
V1NextNoCallback(w) ==
    /\ pc[w] = "next"
    /\ Kind(w) = "v1"
    /\ LET page == V1Page(it[w].min_time) IN
       /\ events' = [events EXCEPT ![w] = page]
       /\ IF Len(page) > 0
          THEN /\ it' = [it EXCEPT ![w].min_time = V1Cursor(page)]
               /\ pc' = [pc EXCEPT ![w] = "forward"]
               /\ Returned(w, page)
          ELSE /\ pc' = [pc EXCEPT ![w] = "pass_end"]
               /\ UNCHANGED <<it, retcnt, hist, pass_pages>>
    /\ sleeps' = [sleeps EXCEPT ![w] = <<>>]
    /\ cycle' = [cycle EXCEPT ![w] = <<>>]
    /\ UNCHANGED <<config, azure, store, stored, lock, stop_event, total, result, offset,
                   forwarded, after_stop, pass_cursor, resumed_at, failed_ever>>

\* DuoV1LogsIterator.__next__
V1Next(w) ==
    /\ pc[w] = "next"
    /\ Kind(w) = "v1"
    /\ LET page == V1Page(it[w].min_time) IN
       /\ events' = [events EXCEPT ![w] = page]
       /\ IF Len(page) > 0
          THEN /\ it' = [it EXCEPT ![w].min_time = V1Cursor(page)]
               /\ offset' = [offset EXCEPT ![w] = {<<"min_time", V1Cursor(page)>>}]
               /\ pc' = [pc EXCEPT ![w] = "save_acquire"]
          ELSE /\ pc' = [pc EXCEPT ![w] = "pass_end"]
               /\ UNCHANGED <<it, offset>>
    /\ sleeps' = [sleeps EXCEPT ![w] = <<>>]
    /\ cycle' = [cycle EXCEPT ![w] = <<>>]
    /\ UNCHANGED <<config, azure, store, stored, lock, stop_event, total, result,
                   forwarded, retcnt, hist, after_stop, pass_cursor, resumed_at, failed_ever,
                   pass_pages>>

\* DuoV2LogsIterator.__next__
V2Next(w) ==
    /\ pc[w] = "next"
    /\ Kind(w) = "v2"
    /\ LET response == V2Response(it[w]) IN
       /\ events' = [events EXCEPT ![w] = response.items]
       /\ IF Truthy(response.next_offset)
          THEN /\ it' = [it EXCEPT ![w].next_offset = response.next_offset]
               /\ offset' = [offset EXCEPT ![w] = {<<"next_offset", response.next_offset>>}]
               /\ pc' = [pc EXCEPT ![w] = "save_acquire"]
               /\ UNCHANGED <<retcnt, hist, pass_pages>>
          ELSE /\ UNCHANGED <<it, offset>>
               /\ IF V2Exhausted(response.items, response.next_offset)
                  THEN /\ pc' = [pc EXCEPT ![w] = "pass_end"]
                       /\ UNCHANGED <<retcnt, hist, pass_pages>>
                  ELSE /\ pc' = [pc EXCEPT ![w] = "forward"]
                       /\ Returned(w, response.items)
    /\ sleeps' = [sleeps EXCEPT ![w] = <<>>]
    /\ cycle' = [cycle EXCEPT ![w] = <<>>]
    /\ UNCHANGED <<config, azure, store, stored, lock, stop_event, total, result,
                   forwarded, after_stop, pass_cursor, resumed_at, failed_ever>>

\* save_checkpoint: context_lock.acquire()
SaveAcquire(w) ==
    /\ pc[w] = "save_acquire"
    /\ LockFree
    /\ lock' = w
    /\ pc' = [pc EXCEPT ![w] = "save_cs"]
    /\ UNCHANGED <<config, azure, store, stored, stop_event, total, result, it, events, offset, ghost, timing>>

\* Mutant: the entry is written only when the key is absent (setdefault).
SaveWriteIfAbsent(w) ==
    /\ pc[w] = "save_cs"
    /\ store' = [store EXCEPT ![w] = IF w \in stored THEN @ ELSE offset[w]]
    /\ stored' = stored \cup {w}
    /\ pc' = [pc EXCEPT ![w] = "save_release"]
    /\ UNCHANGED <<config, azure, lock, stop_event, total, result, it, events, offset, ghost, timing>>

\* save_checkpoint: `cache[key] = offset`
SaveWrite(w) ==
    /\ pc[w] = "save_cs"
    /\ store' = [store EXCEPT ![w] = offset[w]]
    /\ stored' = stored \cup {w}
    /\ pc' = [pc EXCEPT ![w] = "save_release"]
    /\ UNCHANGED <<config, azure, lock, stop_event, total, result, it, events, offset, ghost, timing>>

\* save_checkpoint: context_lock.release(); the iterator step then returns its
\* page, or (offset-cursor, empty page) raises StopIteration
SaveRelease(w) ==
    /\ pc[w] = "save_release"
    /\ lock' = Free
    /\ IF Kind(w) = "v2" /\ V2Exhausted(events[w], Get(offset[w], "next_offset"))
       THEN /\ pc' = [pc EXCEPT ![w] = "pass_end"]
            /\ UNCHANGED <<retcnt, hist, pass_pages>>
       ELSE /\ pc' = [pc EXCEPT ![w] = "forward"]
            /\ Returned(w, events[w])
    /\ UNCHANGED <<config, azure, store, stored, stop_event, total, result, it, events, offset,
                   forwarded, after_stop, pass_cursor, resumed_at, failed_ever, timing>>

\* fetch_batches: the loop body up to push_events_to_intakes and the count
Forward(w) ==
    /\ pc[w] = "forward"
    /\ forwarded' = [forwarded EXCEPT ![w] = @ \cup Range(events[w])]
    /\ total' = [total EXCEPT ![w] = Min(@ + Len(events[w]), NumRecs)]  \* only `== 0` is read
    /\ after_stop' = [after_stop EXCEPT ![w] = IF stop_event[w] THEN Min(@ + 1, 2) ELSE @]
    /\ pc' = [pc EXCEPT ![w] = "pace"]
    /\ UNCHANGED <<config, azure, store, stored, lock, stop_event, result, it, events, offset,
                   retcnt, hist, pass_cursor, resumed_at, failed_ever,
                   pass_pages, timing>>

\* fetch_batches: the two clock reads around the loop body and the pacing
\* sleep.  batch_start_time is read after the iterator step has returned, so
\* only push_time lies between the two reads; fetch_time, the time the
\* iterator step took, is recorded for the claims and read by nothing.
Pace(w) ==
    /\ pc[w] = "pace"
    /\ \E fetch_time \in Durations, push_time \in Durations :
          LET batch_duration == Seconds(push_time)
              delta_sleep == frequency - batch_duration
          IN  /\ sleeps' = [sleeps EXCEPT ![w] =
                               IF delta_sleep > 0 THEN <<delta_sleep>> ELSE <<>>]
              /\ cycle' = [cycle EXCEPT ![w] = <<fetch_time, push_time>>]
    /\ pc' = [pc EXCEPT ![w] = "next"]
    /\ UNCHANGED <<config, azure, store, stored, lock, stop_event, total, result, it, events,
                   offset, ghost>>

\* Mutant: the sleep at the end of a pass does not depend on the count.
PassEndAlwaysSleeps(w) ==
    /\ pc[w] = "pass_end"
    /\ sleeps' = [sleeps EXCEPT ![w] = Append(@, frequency)]
    /\ pc' = [pc EXCEPT ![w] = "run"]
    /\ UNCHANGED <<config, azure, store, stored, lock, stop_event, total, result, it, events,
                   offset, ghost, cycle>>

\* fetch_batches: the loop has ended; idle sleep when nothing was fetched
PassEnd(w) ==
    /\ pc[w] = "pass_end"
    /\ sleeps' = [sleeps EXCEPT ![w] = IF total[w] = 0 THEN Append(@, frequency) ELSE @]
    /\ pc' = [pc EXCEPT ![w] = "run"]
    /\ UNCHANGED <<config, azure, store, stored, lock, stop_event, total, result, it, events,
                   offset, ghost, cycle>>

\* stop(), called by the connector from another thread
Stop(w) ==
    /\ pc[w] \notin {"new", "stopped", "failed"}
    /\ ~stop_event[w]
    /\ stop_event' = [stop_event EXCEPT ![w] = TRUE]
    /\ UNCHANGED <<config, azure, store, stored, lock, pc, total, result, it, events, offset, ghost, timing>>

\* run: the source call of the iterator step raises
FetchFail(w) ==
    /\ pc[w] = "next"
    /\ pc' = [pc EXCEPT ![w] = "failed"]
    /\ failed_ever' = TRUE
    /\ sleeps' = [sleeps EXCEPT ![w] = <<>>]
    /\ cycle' = [cycle EXCEPT ![w] = <<>>]
    /\ UNCHANGED <<config, azure, store, stored, lock, stop_event, total, result, it, events, offset,
                   forwarded, retcnt, hist, after_stop, pass_cursor, resumed_at,
                   pass_pages>>

\* Mutant: the error of push_events_to_intakes is swallowed inside the loop
\* and the thread goes on with the pacing of the page.
PushFailSkip(w) ==
    /\ pc[w] = "forward"
    /\ pc' = [pc EXCEPT ![w] = "pace"]
    /\ failed_ever' = TRUE
    /\ UNCHANGED <<config, azure, store, stored, lock, stop_event, total, result, it, events, offset,
                   forwarded, retcnt, hist, after_stop, pass_cursor, resumed_at,
                   pass_pages, timing>>

\* run: push_events_to_intakes raises
PushFail(w) ==
    /\ pc[w] = "forward"
    /\ pc' = [pc EXCEPT ![w] = "failed"]
    /\ failed_ever' = TRUE
    /\ UNCHANGED <<config, azure, store, stored, lock, stop_event, total, result, it, events, offset,
                   forwarded, retcnt, hist, after_stop, pass_cursor, resumed_at,
                   pass_pages, timing>>

\* run: the store access inside `with connector.context` raises; the
\* release() after the block is skipped
StoreFail(w) ==
    /\ pc[w] \in {"load_cs", "save_cs"}
    /\ pc' = [pc EXCEPT ![w] = "failed"]
    /\ failed_ever' = TRUE
    /\ UNCHANGED <<config, azure, store, stored, lock, stop_event, total, result, it, events, offset,
                   forwarded, retcnt, hist, after_stop, pass_cursor, resumed_at,
                   pass_pages, timing>>

\* A new DuoLogsConsumer for the same log type is constructed and started.
Restart(w) ==
    /\ pc[w] \in {"stopped", "failed"}
    /\ pc' = [pc EXCEPT ![w] = "run"]
    /\ stop_event' = [stop_event EXCEPT ![w] = FALSE]
    /\ total' = [total EXCEPT ![w] = 0]
    /\ result' = [result EXCEPT ![w] = {}]
    /\ it' = [it EXCEPT ![w] = [min_time |-> None, next_offset |-> None]]
    /\ events' = [events EXCEPT ![w] = <<>>]
    /\ offset' = [offset EXCEPT ![w] = {}]
    /\ after_stop' = [after_stop EXCEPT ![w] = 0]
    /\ resumed_at' = [resumed_at EXCEPT ![w] = Len(hist[w])]
    /\ sleeps' = [sleeps EXCEPT ![w] = <<>>]
    /\ cycle' = [cycle EXCEPT ![w] = <<>>]
    /\ UNCHANGED <<config, azure, store, stored, lock, forwarded, retcnt, hist,
                   pass_cursor, failed_ever, pass_pages>>

Next ==
    \/ \E w \in started : RunCheck(w)
    \/ \E w \in started : LoadAcquire(w)
    \/ \E w \in started : LoadRead(w)
    \/ \E w \in started : LoadRelease(w)
    \/ \E w \in started : V1Next(w)
    \/ \E w \in started : V2Next(w)
    \/ \E w \in started : SaveAcquire(w)
    \/ \E w \in started : SaveWrite(w)
    \/ \E w \in started : SaveRelease(w)
    \/ \E w \in started : Forward(w)
    \/ \E w \in started : Pace(w)
    \/ \E w \in started : PassEnd(w)
    \/ \E w \in started : Stop(w)
    \/ \E w \in started : FetchFail(w)
    \/ \E w \in started : PushFail(w)
    \/ \E w \in started : StoreFail(w)
    \/ \E w \in started : Restart(w)

Spec == Init /\ [][Next]_vars

\* The thread's own steps: no call raises, nobody calls stop().
NextRun ==
    \/ \E w \in started : RunCheck(w)
    \/ \E w \in started : LoadAcquire(w)
    \/ \E w \in started : LoadRead(w)
    \/ \E w \in started : LoadRelease(w)
    \/ \E w \in started : V1Next(w)
    \/ \E w \in started : V2Next(w)
    \/ \E w \in started : SaveAcquire(w)
    \/ \E w \in started : SaveWrite(w)
    \/ \E w \in started : SaveRelease(w)
    \/ \E w \in started : Forward(w)
    \/ \E w \in started : Pace(w)
    \/ \E w \in started : PassEnd(w)

\* A failure-free run: the started thread keeps running (a thread that can
\* take a step eventually takes one).
\* Both consumer threads are started and share the store and its lock.
InitConc ==
    /\ ts = [r \in RecIds |-> IF r = 1 THEN MaxTs ELSE 1]
    /\ limit = MaxLimit
    /\ shape = "always"
    /\ started = Workers
    /\ InitShared
    /\ InitAzureOff

SpecConc == InitConc /\ [][Next]_vars

SpecRun == Init /\ [][NextRun]_vars /\ WF_vars(NextRun)

\* ------------------------------------------- the blob connector's steps
\* The clock advances.
Tick ==
    /\ now < MaxTime
    /\ now' = now + 1
    /\ UNCHANGED <<container, blob_cache, bpc, lower_bound, blobs_list, done, watermark>>

\* A blob is uploaded (or modified) and appears at the end of the listing.
Upload ==
    /\ Len(container) < MaxBlobs
    /\ \E t \in Times : container' = Append(container, t)
    /\ UNCHANGED <<now, blob_cache, bpc, lower_bound, blobs_list, done, watermark>>

\* get_azure_blob_data: the effective watermark is read
ReadWatermark ==
    /\ bpc = "idle"
    /\ lower_bound' = LastEventDate
    /\ watermark' = LastEventDate
    /\ bpc' = "list"
    /\ UNCHANGED <<now, container, blob_cache, blobs_list, done>>

\* get_azure_blob_data: get_most_recent_blobs(lower_bound) is enumerated
ListBlobs ==
    /\ bpc = "list"
    /\ blobs_list' = GetMostRecentBlobs(lower_bound)
    /\ done' = 0
    /\ bpc' = "process"
    /\ UNCHANGED <<now, container, blob_cache, lower_bound, watermark>>

\* get_azure_blob_data: one qualifying blob is downloaded and read
ProcessBlob ==
    /\ bpc = "process"
    /\ done < Len(blobs_list)
    /\ done' = done + 1
    /\ watermark' = NewWatermark(watermark, container[blobs_list[done + 1]])
    /\ UNCHANGED <<now, container, blob_cache, bpc, lower_bound, blobs_list>>

\* get_azure_blob_data: every qualifying blob is read; the watermark
\* checkpoint is advanced.  A poll that read no blob leaves the checkpoint,
\* or writes back the watermark it read.
SaveWatermark ==
    /\ bpc = "process"
    /\ done = Len(blobs_list)
    /\ \/ blob_cache' = IsoFormat(watermark)
       \/ done = 0 /\ blob_cache' = blob_cache
    /\ bpc' = "idle"
    /\ UNCHANGED <<now, container, lower_bound, blobs_list, done, watermark>>

duo == <<ts, limit, shape, started, store, stored, lock, pc, stop_event, total,
         result, it, events, offset, forwarded, retcnt, hist, after_stop,
         pass_cursor, resumed_at, failed_ever, pass_pages, sleeps, cycle>>

NextBlob ==
    \/ Tick /\ UNCHANGED duo
    \/ Upload /\ UNCHANGED duo
    \/ ReadWatermark /\ UNCHANGED duo
    \/ ListBlobs /\ UNCHANGED duo
    \/ ProcessBlob /\ UNCHANGED duo
    \/ SaveWatermark /\ UNCHANGED duo

\* The blob connector alone: any checkpoint value may be stored at the start.
InitBlob ==
    /\ now = Hour
    /\ container = <<>>
    /\ blob_cache \in {NoDate} \cup {IsoFormat(t) : t \in Times}
    /\ bpc = "idle"
    /\ lower_bound = 0
    /\ blobs_list = <<>>
    /\ done = 0
    /\ watermark = 0
    /\ ts = [r \in RecIds |-> 1]
    /\ limit = 1
    /\ shape = "always"
    /\ started = {}
    /\ InitShared

SpecBlob == InitBlob /\ [][NextBlob]_vars

\* ================================================================ claims
HasKey(d, k) == \E p \in d : p[1] = k

IsV1(w) == w \in started /\ Kind(w) = "v1"
IsV2(w) == w \in started /\ Kind(w) = "v2"

\* Position of a record in the offset-cursor source's order.
PosOf(r) == CHOOSE i \in 1 .. NumRecs : SourceOrder[i] = r

\* The records a persisted checkpoint accounts for: a later pass or a restarted
\* worker will not fetch them again.
Covered(w, r) ==
    /\ w \in stored
    /\ IF Kind(w) = "v1"
       THEN Truthy(Get(store[w], "min_time")) /\ ts[r] < Get(store[w], "min_time")
       ELSE Truthy(Get(store[w], "next_offset")) /\ PosOf(r) <= Get(store[w], "next_offset")

\* C1: in a failure-free run of a time-cursor worker, once the pagination
\* sequence of a pass is exhausted every record whose timestamp is >= the
\* cursor the pass started from has been returned in a page and forwarded.
C1_NoRecordLost ==
    \A w \in Workers :
        (IsV1(w) /\ ~failed_ever /\ pc[w] = "pass_end")
            => \A r \in RecIds : ts[r] >= pass_cursor[w] => r \in forwarded[w]

\* C2: the persisted checkpoint never covers a record that has not yet been
\* passed to a successful push_events_to_intakes call.
C2_CheckpointAfterForward ==
    \A w \in Workers : \A r \in RecIds :
        (w \in started /\ Covered(w, r)) => r \in forwarded[w]

\* C3: a time-cursor step whose fetch is non-empty returns exactly the
\* min(limit, |S|) records of S with the smallest timestamps, ascending, and
\* leaves the cursor at (timestamp of the last returned record) + 1.
C3_TimeCursorStep ==
    [][\A w \in Workers :
        (IsV1(w) /\ pc[w] = "next" /\ pc'[w] \in {"save_acquire", "pass_end"})
        => LET S == {r \in RecIds : ts[r] >= it[w].min_time}
               page == events'[w]
           IN  /\ Len(page) = Min(limit, Cardinality(S))
               /\ Range(page) \subseteq S
               /\ Cardinality(Range(page)) = Len(page)
               /\ \A i, j \in 1 .. Len(page) : i < j => ts[page[i]] <= ts[page[j]]
               /\ \A q \in Range(page) : \A r \in S \ Range(page) : ts[q] <= ts[r]
               /\ S /= {} => /\ pc'[w] = "save_acquire"
                             /\ it'[w].min_time = ts[page[Len(page)]] + 1
               /\ S = {} => pc'[w] = "pass_end" /\ it'[w] = it[w]
      ]_vars

\* C3 witness: records listed with timestamps 2, 1, 1 and limit 2: the step
\* sorted them, returned the two oldest and left the cursor at 1 + 1.
C3_Witness ==
    /\ IsV1("admin") /\ limit = 2
    /\ ts[1] = 2 /\ ts[2] = 1 /\ ts[3] = 1
    /\ pc["admin"] = "save_acquire"
    /\ events["admin"] = <<2, 3>>
    /\ it["admin"].min_time = 2

\* C4: in a failure-free run of a time-cursor worker no record is returned in
\* two pages, within a pass or across passes that reload the checkpoint.
C4_NoRecordTwice ==
    \A w \in Workers :
        (IsV1(w) /\ ~failed_ever) => \A r \in RecIds : retcnt[w][r] <= 1

\* C4 witness: a later pass, started from the reloaded checkpoint, has run to
\* exhaustion after every record was returned once.
C4_Witness ==
    /\ IsV1("admin") /\ ~failed_ever
    /\ pc["admin"] = "pass_end" /\ pass_cursor["admin"] > 0
    /\ Len(hist["admin"]) >= 2
    /\ \A r \in RecIds : retcnt["admin"][r] = 1

\* C5: a persisted checkpoint field only moves forward: once a field holds a
\* value, no later save lowers it, nulls it or drops it.
C5_CheckpointMonotone ==
    [][\A w \in Workers : \A k \in {"min_time", "next_offset"} :
        (w \in stored /\ HasKey(store[w], k) /\ Get(store[w], k) /= None)
        => /\ w \in stored'
           /\ HasKey(store'[w], k)
           /\ Get(store'[w], k) >= Get(store[w], k)
      ]_vars

\* C5 witness: a second save has moved a persisted field strictly forward.
C5_Witness ==
    \E w \in started :
        /\ pc[w] = "save_release"
        /\ \E k \in {"min_time", "next_offset"} :
              /\ HasKey(store[w], k)
              /\ HasKey(result[w], k)
              /\ Get(result[w], k) /= None
              /\ Get(store[w], k) > Get(result[w], k)

\* C6: the offset-cursor sequence ends exactly at a step whose response holds
\* zero items, with or without a next_offset; a step whose response holds
\* items returns them unchanged, in the source's order.
C6_OffsetCursorStep ==
    [][\A w \in Workers : IsV2(w) =>
        /\ (pc[w] = "next" /\ pc'[w] \notin {"next", "failed"})
              => events'[w] = V2Response(it[w]).items
        /\ (pc[w] = "save_release" /\ pc'[w] /= "save_release")
              => events'[w] = events[w]
        /\ (pc[w] \in {"next", "save_release"} /\ pc'[w] = "pass_end")
              => Len(events'[w]) = 0
        /\ (pc[w] \in {"next", "save_release"} /\ pc'[w] = "forward")
              => Len(events'[w]) > 0
        /\ (pc[w] = "save_release" /\ pc'[w] /= "save_release")
              => pc'[w] \in {"pass_end", "forward"}
      ]_vars

\* C6 witness: the sequence ended on an empty response that carried a
\* next_offset, after earlier pages with a next_offset.
C6_Witness ==
    /\ IsV2("auth") /\ shape = "echo"
    /\ pc["auth"] = "pass_end"
    /\ events["auth"] = <<>>
    /\ Get(offset["auth"], "next_offset") = NumRecs
    /\ Len(hist["auth"]) >= 1

\* C7: every pagination sequence is finite: the pass of a started worker
\* reaches exhaustion.
C7_PaginationFinite == <>(\A w \in started : pc[w] = "pass_end")

\* A thread is inside the `with connector.context` block.
InSection(w) == pc[w] \in {"load_cs", "save_cs"}

\* C8: at most one thread is inside the `with connector.context` block of
\* load_checkpoint / save_checkpoint at any time.
C8_StoreMutex ==
    \A v, w \in Workers : (InSection(v) /\ InSection(w)) => v = w

\* C8 witness: one thread is inside the block of save_checkpoint while the
\* other waits to acquire the lock for its own save.
C8_Witness ==
    \E v, w \in started :
        /\ v /= w
        /\ pc[v] = "save_cs"
        /\ pc[w] = "save_acquire"

\* The pages a single iterator returns when driven without interruption from
\* the empty checkpoint, at most n of them.
RECURSIVE V1Run(_, _)
V1Run(min_time, n) ==
    IF n = 0 \/ V1Page(min_time) = <<>> THEN <<>>
    ELSE <<V1Page(min_time)>> \o V1Run(V1Cursor(V1Page(min_time)), n - 1)

RECURSIVE V2Run(_, _)
V2Run(i, n) ==
    LET response == V2Response(i) IN
    IF n = 0 \/ V2Exhausted(response.items, response.next_offset) THEN <<>>
    ELSE <<response.items>>
         \o V2Run(IF Truthy(response.next_offset)
                  THEN [i EXCEPT !.next_offset = response.next_offset] ELSE i, n - 1)

UninterruptedRun(w, n) ==
    IF Kind(w) = "v1" THEN V1Run(EventsIterator(w, DefaultCheckpoint).min_time, n)
    ELSE V2Run(EventsIterator(w, DefaultCheckpoint), n)

\* C9: the pages returned before and after a restart (and across passes),
\* concatenated, are the page sequence of an uninterrupted run over the same
\* source: a restarted worker resumes from the cursor the last page persisted.
C9_RestartResumes ==
    \A w \in started :
        pc[w] = "forward" => hist[w] = UninterruptedRun(w, Len(hist[w]))

\* C9 witness: a worker restarted after at least one page has returned a
\* further page.
C9_Witness ==
    \E w \in started :
        /\ resumed_at[w] >= 1
        /\ Len(hist[w]) > resumed_at[w]
        /\ Len(hist[w]) < MaxHist
        /\ pc[w] = "forward"

\* C10 as stated: after stop() the worker performs at most one further page
\* fetch-and-forward.
C10_OnePageAfterStop == \A w \in started : after_stop[w] <= 1

\* C10 amended: the stop flag is read only at the top of the outer loop: a
\* worker that reads it set terminates there, starting no new pass, and a
\* worker terminates normally nowhere else; until then it finishes the current
\* pass, page after page.
C10_StopBetweenPasses ==
    [][\A w \in started :
        /\ (pc[w] = "run" /\ stop_event[w] /\ pc'[w] /= "run") => pc'[w] = "stopped"
        /\ (pc[w] /= "stopped" /\ pc'[w] = "stopped") => (pc[w] = "run" /\ stop_event[w])
        /\ (stop_event[w] /\ pc[w] = "pace" /\ pc'[w] /= "pace") => pc'[w] = "next"
      ]_vars

\* C10 witness: a worker has terminated after forwarding two or more pages
\* since stop() was called.
C10_Witness == \E w \in started : pc[w] = "stopped" /\ after_stop[w] = 2

\* The thread of log type w has ended and no supervisor has started a new one.
Terminated(w) == pc[w] \in {"stopped", "failed"}

\* The lock is held by the running thread of log type w, between its
\* acquire() and its release().
HoldsLock(w) == lock = w /\ pc[w] \in {"load_cs", "load_release", "save_cs", "save_release"}

\* C11: an error raised by the source fetch or by push_events_to_intakes
\* ends that thread at once: the failed step is not retried, the thread
\* fetches, forwards and saves nothing more, it does not hold the lock, and
\* every other running thread of the connector goes on: the one step that
\* can wait, acquire() of the store's lock, can be taken (the lock being free).
C11_ErrorTerminatesWorker ==
    /\ [](\A w, v \in started :
            (pc[w] = "failed" /\ lock /= w /\ v /= w /\ ~Terminated(v)
                /\ (lock = Free \/ HoldsLock(v)))
                => /\ pc[v] /= "new"
                   /\ pc[v] \in {"load_acquire", "save_acquire"}
                        => ENABLED (LoadAcquire(v) \/ SaveAcquire(v)))
    /\ [][\A w \in started :
            /\ (pc[w] = "next" /\ pc'[w] \notin {"next", "failed"})
                  => /\ pc'[w] \in {"save_acquire", "pass_end", "forward"}
                     /\ events'[w] = IF Kind(w) = "v1" THEN V1Page(it[w].min_time)
                                     ELSE V2Response(it[w]).items
            /\ (pc[w] = "forward" /\ pc'[w] \notin {"forward", "failed"})
                  => /\ pc'[w] = "pace"
                     /\ forwarded'[w] = forwarded[w] \cup Range(events[w])
            /\ (pc[w] \in {"next", "forward"} /\ pc'[w] = "failed")
                  => /\ lock' /= w
                     /\ store' = store /\ stored' = stored
                     /\ forwarded'[w] = forwarded[w] /\ hist'[w] = hist[w]
            /\ (pc[w] = "failed" /\ pc'[w] = "failed")
                  => /\ store'[w] = store[w] /\ (w \in stored' <=> w \in stored)
                     /\ forwarded'[w] = forwarded[w] /\ hist'[w] = hist[w]
                     /\ it'[w] = it[w] /\ events'[w] = events[w]
       ]_vars

\* C11 witness: the time-cursor thread has ended on a failed push of its
\* first page, and the offset-cursor thread has fetched, saved and forwarded
\* pages of its own.
C11_Witness ==
    /\ started = Workers
    /\ pc["admin"] = "failed" /\ lock /= "admin"
    /\ Len(hist["admin"]) = 1 /\ forwarded["admin"] = {}
    /\ pc["auth"] = "pace" /\ forwarded["auth"] /= {} /\ "auth" \in stored

\* C12: after each page the thread sleeps max(0, frequency - elapsed), where
\* elapsed is the time the page's whole cycle took, the iterator step (fetch)
\* and the push together: it sleeps at least frequency - elapsed, and not at
\* all when the cycle took frequency seconds or more.
C12_PacingSleep ==
    \A w \in started :
        (pc[w] = "next" /\ cycle[w] /= <<>>)
            => LET elapsed == cycle[w][1] + cycle[w][2]
                   slept == IF sleeps[w] = <<>> THEN 0 ELSE sleeps[w][1]
               IN  /\ Len(sleeps[w]) <= 1
                   /\ 2 * slept >= 2 * frequency - elapsed
                   /\ elapsed >= 2 * frequency => slept = 0

\* C13: a pass that returned no page ends with exactly one sleep, of
\* `frequency` seconds, and no further sleep precedes the first fetch of the
\* next pass; a pass that returned a page ends without that sleep.
C13_IdleBackoff ==
    [][\A w \in started :
        /\ (pc[w] = "pass_end" /\ pc'[w] = "run")
              => sleeps'[w] = IF pass_pages[w] THEN <<>> ELSE <<frequency>>
        /\ (pc[w] \in {"run", "load_acquire", "load_cs", "load_release"}
                /\ pc'[w] \in {"load_acquire", "load_cs", "load_release", "next"})
              => sleeps'[w] = sleeps[w]
      ]_vars

\* C13 witness: after a pass that forwarded pages, a second pass found
\* nothing new, slept `frequency` seconds once, and a third pass is about to
\* fetch.
C13_Witness ==
    \E w \in started :
        /\ pc[w] = "next" /\ ~pass_pages[w]
        /\ forwarded[w] /= {} /\ pass_cursor[w] > 0
        /\ sleeps[w] = <<frequency>>
        /\ ~failed_ever

\* C14: get_most_recent_blobs(lower_bound) yields exactly the listed blobs
\* whose last_modified is strictly greater than lower_bound, each once and in
\* the order of the listing; a blob with last_modified = lower_bound is left
\* out.
C14_MostRecentBlobs ==
    [][(bpc = "list" /\ bpc' = "process")
        => /\ Range(blobs_list') =
                  {i \in 1 .. Len(container) : container[i] > lower_bound}
           /\ \A j, k \in 1 .. Len(blobs_list') : j < k => blobs_list'[j] < blobs_list'[k]
           /\ \A i \in 1 .. Len(container) :
                  container[i] = lower_bound => i \notin Range(blobs_list')
      ]_vars

\* C14 witness: of three listed blobs the first sits exactly on the bound
\* and the second is newer than the third: the second and third were
\* yielded, in that order.
C14_Witness ==
    /\ bpc = "process"
    /\ Len(container) = 3
    /\ container[1] = lower_bound
    /\ container[3] > lower_bound /\ container[2] > container[3]
    /\ blobs_list = <<2, 3>>

\* C15: the effective watermark is now - 1 hour when no value is stored,
\* the stored value when that is not older than now - 1 hour, and now - 1
\* hour when the stored value is older; it is never earlier than now - 1 hour.
C15_EffectiveWatermark ==
    /\ [](LastEventDate >= now - Hour)
    /\ [][(bpc = "idle" /\ bpc' = "list")
            => /\ blob_cache = NoDate => lower_bound' = now - Hour
               /\ (blob_cache /= NoDate /\ IsoParse(blob_cache) >= now - Hour)
                      => lower_bound' = IsoParse(blob_cache)
               /\ (blob_cache /= NoDate /\ IsoParse(blob_cache) < now - Hour)
                      => lower_bound' = now - Hour
       ]_vars

\* C15 witness: a poll has read a watermark clamped to now - 1 hour from a
\* stored value older than that.
C15_Witness ==
    /\ bpc = "list"
    /\ blob_cache /= NoDate
    /\ IsoParse(blob_cache) < now - Hour
    /\ lower_bound = now - Hour

\* The largest last_modified among the blobs at the positions in s.
Newest(s) == CHOOSE t \in {container[i] : i \in s} : \A i \in s : container[i] <= t

\* C16: a poll that read at least one blob leaves as persisted watermark the
\* largest last_modified among the blobs it read, so that the filter of the
\* next poll yields none of them; no poll lowers or removes the persisted
\* watermark.
C16_WatermarkAdvance ==
    [][/\ (bpc = "process" /\ bpc' = "idle" /\ blobs_list /= <<>>)
            => /\ blob_cache' = IsoFormat(Newest(Range(blobs_list)))
               /\ \A i \in Range(blobs_list) :
                      i \notin (Range(GetMostRecentBlobs(LastEventDate)))'
       /\ blob_cache /= NoDate
            => /\ blob_cache' /= NoDate
               /\ IsoParse(blob_cache') >= IsoParse(blob_cache)
      ]_vars

\* C16 witness: a poll has read three blobs with three different
\* last_modified and has persisted the largest, which is not the current time.
C16_Witness ==
    /\ bpc = "idle"
    /\ Len(blobs_list) = 3 /\ done = 3
    /\ Cardinality({container[i] : i \in Range(blobs_list)}) = 3
    /\ blob_cache = IsoFormat(Newest(Range(blobs_list)))
    /\ IsoParse(blob_cache) < now

\* C17: load_checkpoint of a log type with no stored entry returns the
\* default {min_time: None, next_offset: None}, can always complete and leaves
\* the store as it is; save_checkpoint overwrites the entry with what it is
\* given, so that saving the stored cursor again changes nothing; and a load
\* returns exactly what the thread's last save wrote.
C17_LoadSaveCheckpoint ==
    /\ [](\A w \in started : pc[w] = "load_cs" => ENABLED LoadRead(w))
    /\ [][\A w \in started :
            /\ (pc[w] = "load_cs" /\ pc'[w] = "load_release")
                  => /\ store' = store /\ stored' = stored
                     /\ w \notin stored => result'[w] = DefaultCheckpoint
                     /\ offset[w] /= {} => result'[w] = offset[w]
            /\ (pc[w] = "save_cs" /\ pc'[w] = "save_release")
                  => /\ w \in stored' /\ store'[w] = offset[w]
                     /\ \A v \in Workers \ {w} :
                            store'[v] = store[v] /\ (v \in stored' <=> v \in stored)
                     /\ (w \in stored /\ store[w] = offset[w])
                            => store' = store /\ stored' = stored
       ]_vars

\* C17 witness: a pass loaded the entry a previous pass had saved and has
\* just saved the same cursor again.
C17_Witness ==
    \E w \in started :
        /\ pc[w] = "save_release"
        /\ w \in stored /\ store[w] = offset[w]
        /\ result[w] = offset[w]
        /\ pass_cursor[w] /= 0 \/ Truthy(Get(result[w], "next_offset"))

\* C18: whenever the thread holds a page of the time-cursor iterator, the
\* persisted min_time of its log type already equals the iterator's cursor,
\* the last returned timestamp + 1; an exhausting step calls no callback and
\* changes neither the cursor nor the store.
C18_SavedBeforeReturned ==
    /\ [](\A w \in started :
            (IsV1(w) /\ pc[w] \in {"forward", "pace"})
                => /\ w \in stored
                   /\ Get(store[w], "min_time") = it[w].min_time
                   /\ it[w].min_time = ts[events[w][Len(events[w])]] + 1)
    /\ [][\A w \in started :
            (IsV1(w) /\ pc[w] = "next" /\ pc'[w] = "pass_end")
                => /\ events'[w] = <<>>
                   /\ it'[w] = it[w] /\ offset'[w] = offset[w]
                   /\ store' = store /\ stored' = stored
       ]_vars

\* C18 witness: the thread holds the second page of a pass; the store
\* already holds the cursor past it.
C18_Witness ==
    /\ IsV1("admin") /\ pc["admin"] = "forward"
    /\ Len(hist["admin"]) = 2 /\ total["admin"] > 0
    /\ Get(store["admin"], "min_time") = ts[events["admin"][1]] + 1
    /\ Get(result["admin"], "min_time") = None

\* A record of a page that was returned to the loop and whose push did not
\* succeed: the page is no longer in flight.
PushFailed(w, r) ==
    /\ retcnt[w][r] >= 1
    /\ r \notin forwarded[w]
    /\ pc[w] /= "forward"

\* C19: when the push of a page fails, the persisted cursor is already past
\* the page when the thread terminates, and no later page (of a restarted
\* worker) holds a record of it.
C19_FailedPageSkipped ==
    /\ [](\A w \in started : \A r \in RecIds : PushFailed(w, r) => Covered(w, r))
    /\ [][\A w \in started : \A r \in RecIds :
            (PushFailed(w, r) /\ pc'[w] = "forward") => r \notin Range(events'[w])
       ]_vars

\* C20: every persisted entry holds both fields, min_time and next_offset.
C20_EntryLayout ==
    \A w \in stored : HasKey(store[w], "min_time") /\ HasKey(store[w], "next_offset")

\* C21: the lock is free again after every load_checkpoint or save_checkpoint
\* call, also when the store access inside it raises: the lock is held only
\* by a running thread between its acquire() and its release(), never by a
\* thread that has terminated.
C21_LockReleased ==
    /\ lock /= Free => HoldsLock(lock)
    /\ \A w \in started : Terminated(w) => lock /= w

====
